---- MODULE Spec2Model ----
(***************************************************************************)
(* A model of lcoreapi/api.py: the API client (URL building, the TTL       *)
(* cache of GET responses, the status classification of _query), the       *)
(* lazily hydrating Resource and the list iterator.                        *)
(*                                                                         *)
(* Time is counted in minutes.  A JSON object is a function from field     *)
(* names to values, the empty object being << >>.  Python's None is the    *)
(* string "None" wherever it is formatted or compared.                     *)
(***************************************************************************)
EXTENDS Integers, Sequences, FiniteSets, TLC

VARIABLES
    now,      \* datetime.now(), in minutes
    op,       \* the last API verb called and the URL it built
    cache,    \* API._cache: built URL -> [t: insertion time, data: Resource]
    req,      \* the transport response of the last transport call
    sent,     \* the transport calls of the last operation: <<method, url>>
    result,   \* outcome of the last API verb: a return or a raise
    res,      \* the Resources: id -> [fields, loaded]
    item,     \* the last Resource.__getitem__: Resource, key, whether it
              \* called API.get, and its outcome (a return or a raise)
    fetches,  \* per Resource: API.get calls issued by __getitem__, by outcome
    chain,    \* the pages of a list Resource, page 1 being self
    o,        \* list_iter: the page being iterated (0 is None)
    idx,      \* list_iter: position of the for loop in o['items']
    pc,       \* list_iter: control point
    yielded   \* list_iter: the items yielded so far

clientVars == <<now, op, cache, req, sent, result>>
resVars    == <<res, item, fetches>>
listVars   == <<chain, o, idx, pc, yielded>>
vars       == <<now, op, cache, req, sent, result, res, item, fetches,
                chain, o, idx, pc, yielded>>

-----------------------------------------------------------------------------
(* Bounds of the model *)

MaxTime == 6
MaxFetch == 3
MaxPages == 3
MaxItems == 2
MaxYield == 8

(* Program constants *)

\* self._cache_ttl = timedelta(minutes=5)
TTL == 5

BASE_URL == "https://core.lambdavpn.net/v1/"

None == "None"

-----------------------------------------------------------------------------
(* Python helpers *)

\* dict.get(key, default)
DictGet(d, k, default) == IF k \in DOMAIN d THEN d[k] ELSE default

\* dict.update(other): keys of other are added or overwritten
DictUpdate(d, other) == other @@ d

\* str(x) inside str.format, for an integer
Str(n) == ToString(n)

-----------------------------------------------------------------------------
(* Query encoder *)

\* Rank of a filter name in the lexicographic order of sorted()
KeyRank(k) == CASE k = "a" -> 1 [] k = "b" -> 2 [] k = "c" -> 3 [] OTHER -> 4

\* Filter values: a Python value with its type
Bool(b)   == [type |-> "bool", b |-> b, n |-> 0, s |-> ""]
Int_(n)   == [type |-> "int", b |-> FALSE, n |-> n, s |-> ""]
String(s) == [type |-> "str", b |-> FALSE, n |-> 0, s |-> s]

\* urllib.parse.quote of one character: letters, digits and _.-~/ are kept,
\* the others percent-encoded
SafeChars ==
    {"a", "b", "c", "d", "e", "f", "g", "h", "i", "j", "k", "l", "m", "n",
     "o", "p", "q", "r", "s", "t", "u", "v", "w", "x", "y", "z",
     "0", "1", "2", "3", "4", "5", "6", "7", "8", "9", "_", ".", "-", "~", "/"}

QuoteChar(c) ==
    IF c \in SafeChars THEN c
    ELSE CASE c = " " -> "%20"
           [] c = "&" -> "%26"
           [] c = "=" -> "%3D"
           [] c = "?" -> "%3F"
           [] OTHER -> "%25"

\* urllib.parse.quote(v)
RECURSIVE _quote(_)
_quote(str) ==
    IF Len(str) = 0 THEN ""
    ELSE QuoteChar(SubSeq(str, 1, 1)) \o _quote(SubSeq(str, 2, Len(str)))

\* quote(v): bool -> '1'/'0', int -> str(v), str -> percent-encoded
quote(v) ==
    IF v.type = "bool" THEN (IF v.b THEN "1" ELSE "0")
    ELSE IF v.type = "int" THEN Str(v.n)
    ELSE _quote(v.s)

\* sorted(filters.items()): insertion sort of the <<key, value>> pairs by key
RECURSIVE SortedItems(_)
Insert(p, s) ==
    LET before == SelectSeq(s, LAMBDA q : KeyRank(q[1]) <= KeyRank(p[1]))
        after  == SelectSeq(s, LAMBDA q : KeyRank(q[1]) > KeyRank(p[1]))
    IN before \o <<p>> \o after
SortedItems(filters) ==
    IF filters = << >> THEN << >>
    ELSE Insert(Head(filters), SortedItems(Tail(filters)))

\* '&'.join(k + '=' + quote(v) for k, v in pairs)
RECURSIVE JoinItems(_)
JoinItems(pairs) ==
    IF pairs = << >> THEN ""
    ELSE LET p == Head(pairs)
             kv == p[1] \o "=" \o quote(p[2])
         IN IF Len(pairs) = 1 THEN kv ELSE kv \o "&" \o JoinItems(Tail(pairs))

\* '?' in url
HasQuery(url) == \E i \in 1..Len(url) : SubSeq(url, i, i) = "?"

\* A query string in the order the filters were given
append_qs_unsorted(url, filters) ==
    IF filters # << >>
    THEN (IF HasQuery(url) THEN url \o "&" ELSE url \o "?")
         \o JoinItems(filters)
    ELSE url

append_qs(url, filters) ==
    IF filters # << >>
    THEN (IF HasQuery(url) THEN url \o "&" ELSE url \o "?")
         \o JoinItems(SortedItems(filters))
    ELSE url

\* API.build_url
build_url(url, filters) ==
    LET abs == IF Len(url) > 0 /\ SubSeq(url, 1, 1) = "/"
               THEN BASE_URL \o SubSeq(url, 2, Len(url))
               ELSE url
    IN append_qs(abs, filters)

-----------------------------------------------------------------------------
(* Outcomes and transport responses *)

Return(v)   == [kind |-> "return", exc |-> "", msg |-> "", value |-> v]
Raise(e, m) == [kind |-> "raise", exc |-> e, msg |-> m, value |-> << >>]

\* The transport: method(url, **r_kwargs) followed by req.json().
\*   "response": a response whose body decodes to the JSON object json
\*   "invalid":  a response whose body is not JSON (req.json() raises ValueError)
\*   "nonobject": a response whose body is JSON but not an object (a list, a
\*               string, a number, null): Resource.__init__ calls data.items()
\*               on it, which raises AttributeError
\*   "error":    the transport raises a RequestException
Response(status, json) == [kind |-> "response", status |-> status, json |-> json]
InvalidBody(status)    == [kind |-> "invalid", status |-> status, json |-> << >>]
NonObjectBody(status)  == [kind |-> "nonobject", status |-> status, json |-> << >>]
TransportError         == [kind |-> "error", status |-> 0, json |-> << >>]
NoCall                 == [kind |-> "none", status |-> 0, json |-> << >>]

\* repr(self) of the API and repr(url) in the messages of lines 193 and 195
ApiRepr == "<API(key on " \o BASE_URL \o ")>"
Repr(url) == "'" \o url \o "'"

\* A classifier that drops the body's message
ErrorMessageDefaultOnly(data, default) == default

\* data.get('message', default), lines 201-211
ErrorMessage(data, default) == DictGet(data, "message", default)

\* API._query, lines 200-216: the error raised for a status that is not a
\* success
ErrorFor(status_code, data) ==
    IF status_code = 400
    THEN Raise("APIBadRequestError", ErrorMessage(data, "Bad request"))
    ELSE IF status_code = 401
    THEN Raise("APIAuthError", ErrorMessage(data, "Unauthorized"))
    ELSE IF status_code = 403
    THEN Raise("APIAuthError", ErrorMessage(data, "Forbidden"))
    ELSE IF status_code = 404
    THEN Raise("APINotFoundError", ErrorMessage(data, "Not found"))
    ELSE IF status_code = 405
    THEN Raise("APIMethodNotAllowedError",
               ErrorMessage(data, "Method not allowed"))
    ELSE IF status_code >= 500 /\ status_code <= 599
    THEN Raise("APIServerError", ErrorMessage(data, "Unknown server error"))
    ELSE Raise("APIError",
               "Unknown error " \o Str(status_code) \o ": "
               \o DictGet(data, "error", None) \o " ("
               \o DictGet(data, "message", None) \o ")")

\* A classifier that takes every 2xx status for a success
ClassifyAny2xx(status_code, data) ==
    IF status_code >= 200 /\ status_code <= 299
    THEN Return(data)
    ELSE ErrorFor(status_code, data)

\* API._query, lines 197-216: the status classification of a decoded response
Classify(status_code, data) ==
    IF status_code = 200 \/ status_code = 201
    THEN Return(data)
    ELSE ErrorFor(status_code, data)

\* A query that looks at the status without having decoded the body
_queryStatusFirst(url, rsp) ==
    IF rsp.kind = "error"
    THEN Raise("APIError", "Error connecting to " \o ApiRepr)
    ELSE Classify(rsp.status, rsp.json)

\* API._query from the response on: decoding, then the status classification.
\* The bodies of the model hold scalar fields only, which Resource.__init__
\* leaves as they are.
\* Neither except clause of lines 188-195 catches the AttributeError of a
\* body that is not an object.
_query(url, rsp) ==
    IF rsp.kind = "invalid"
    THEN Raise("APIError", "Invalid response content from " \o ApiRepr
                           \o " on " \o Repr(url))
    ELSE IF rsp.kind = "error"
    THEN Raise("APIError", "Error connecting to " \o ApiRepr)
    ELSE IF rsp.kind = "nonobject"
    THEN Raise("AttributeError", "'list' object has no attribute 'items'")
    ELSE Classify(rsp.status, rsp.json)

-----------------------------------------------------------------------------
(* The cache and the verbs *)

\* An eviction that drops an entry at the TTL already
StaleAtLimit(entry, t) == entry.t <= t - TTL

\* API.get, lines 230-233: an entry is dropped when v[0] < now - ttl
Stale(entry, t) == entry.t < t - TTL

Evict(c, t) == [u \in {k \in DOMAIN c : ~Stale(c[k], t)} |-> c[u]]

\* self._cache[url] = (datetime.now(), data)
CachePut(c, url, t, data) == (url :> [t |-> t, data |-> data]) @@ c

\* A get that stores whatever the query ended in
ApiGetCachesErrors(c, t, url, rsp) ==
    LET swept == Evict(c, t)
    IN IF url \in DOMAIN swept
       THEN [cache |-> swept, result |-> Return(swept[url].data),
             sent |-> << >>, req |-> NoCall]
       ELSE LET data == _query(url, rsp)
            IN [cache |-> CachePut(swept, url, t, data.value),
                result |-> data,
                sent |-> << <<"GET", url>> >>, req |-> rsp]

\* A get that drops the entry of the requested url only
ApiGetSweepsOwn(c, t, url, rsp) ==
    LET swept == [u \in {k \in DOMAIN c : k # url \/ ~Stale(c[k], t)} |-> c[u]]
    IN IF url \in DOMAIN swept
       THEN [cache |-> swept, result |-> Return(swept[url].data),
             sent |-> << >>, req |-> NoCall]
       ELSE LET data == _query(url, rsp)
            IN [cache |-> IF data.kind = "return"
                          THEN CachePut(swept, url, t, data.value)
                          ELSE swept,
                result |-> data,
                sent |-> << <<"GET", url>> >>, req |-> rsp]

\* A get whose hits renew the entry
ApiGetSliding(c, t, url, rsp) ==
    LET swept == Evict(c, t)
    IN IF url \in DOMAIN swept
       THEN [cache |-> CachePut(swept, url, t, swept[url].data),
             result |-> Return(swept[url].data),
             sent |-> << >>, req |-> NoCall]
       ELSE LET data == _query(url, rsp)
            IN [cache |-> IF data.kind = "return"
                          THEN CachePut(swept, url, t, data.value)
                          ELSE swept,
                result |-> data,
                sent |-> << <<"GET", url>> >>, req |-> rsp]

\* A get that never looks its url up
ApiGetNoLookup(c, t, url, rsp) ==
    LET swept == Evict(c, t)
        data == _query(url, rsp)
    IN [cache |-> IF data.kind = "return"
                  THEN CachePut(swept, url, t, data.value)
                  ELSE swept,
        result |-> data,
        sent |-> << <<"GET", url>> >>, req |-> rsp]

\* API.get on an already built url at time t, the transport answering rsp
\* if it is called: the cache, the outcome and the transport calls made.
ApiGet(c, t, url, rsp) ==
    LET swept == Evict(c, t)
    IN IF url \in DOMAIN swept
       THEN [cache |-> swept, result |-> Return(swept[url].data),
             sent |-> << >>, req |-> NoCall]
       ELSE LET data == _query(url, rsp)
            IN [cache |-> IF data.kind = "return"
                          THEN CachePut(swept, url, t, data.value)
                          ELSE swept,
                result |-> data,
                sent |-> << <<"GET", url>> >>, req |-> rsp]

\* A mutating verb that sends a failed request a second time
ApiMutateRetry(c, t, method, url, rsp) ==
    LET data == _query(url, rsp)
    IN [cache |-> c, result |-> data,
        sent |-> IF data.kind = "return"
                 THEN << <<method, url>> >>
                 ELSE << <<method, url>>, <<method, url>> >>,
        req |-> rsp]

\* A mutating verb that answers from the cache as API.get does
ApiMutateCached(c, t, method, url, rsp) ==
    IF url \in DOMAIN c /\ ~(c[url].t < t - TTL)
    THEN [cache |-> c, result |-> Return(c[url].data),
          sent |-> << >>, req |-> NoCall]
    ELSE [cache |-> c, result |-> _query(url, rsp),
          sent |-> << <<method, url>> >>, req |-> rsp]

\* API.post, put, patch, delete: build the URL, query, nothing else.  The
\* request body is serialised and sent; nothing of the client keeps it.
ApiMutate(c, t, method, url, rsp) ==
    [cache |-> c, result |-> _query(url, rsp),
     sent |-> << <<method, url>> >>, req |-> rsp]

Get(url, filters, rsp) ==
    LET r == ApiGet(cache, now, build_url(url, filters), rsp)
    IN /\ op' = [verb |-> "GET", url |-> build_url(url, filters)]
       /\ cache' = r.cache
       /\ result' = r.result
       /\ sent' = r.sent
       /\ req' = r.req
       /\ UNCHANGED <<now, resVars, listVars>>

Mutate(method, url, filters, rsp) ==
    LET r == ApiMutate(cache, now, method, build_url(url, filters), rsp)
    IN /\ op' = [verb |-> method, url |-> build_url(url, filters)]
       /\ cache' = r.cache
       /\ result' = r.result
       /\ sent' = r.sent
       /\ req' = r.req
       /\ UNCHANGED <<now, resVars, listVars>>

Post(url, filters, rsp)   == Mutate("POST", url, filters, rsp)
Put(url, filters, rsp)    == Mutate("PUT", url, filters, rsp)
Patch(url, filters, rsp)  == Mutate("PATCH", url, filters, rsp)
Delete(url, filters, rsp) == Mutate("DELETE", url, filters, rsp)

\* The clock advances by a minute
Tick ==
    /\ now < MaxTime
    /\ now' = now + 1
    /\ UNCHANGED <<op, cache, req, sent, result, resVars, listVars>>

-----------------------------------------------------------------------------
(* Inputs *)

Urls == {"/x/1", "/x/2"}

FilterSets == {<< >>}

\* Bodies the service answers with
StubBody  == [object |-> "x", href |-> "/x/1", id |-> "1"]
FullBody  == [object |-> "x", href |-> "/x/1", id |-> "1", name |-> "n"]
OtherBody == [object |-> "x", href |-> "/x/1", id |-> "1", size |-> "s"]
MsgBody   == [message |-> "no such thing"]
ErrBody   == [error |-> "teapot", message |-> "short and stout"]
EmptyBody == << >>

\* Answers of the transport to the client's calls
ClientResponses ==
    {Response(200, FullBody), Response(201, OtherBody), Response(404, MsgBody),
     InvalidBody(200), TransportError}

MutateResponses ==
    {Response(200, FullBody), Response(404, MsgBody)}

\* Answers of the transport over the range of statuses
Statuses == {200, 201, 204, 302, 400, 401, 403, 404, 405, 418, 499,
             500, 503, 599, 600}

QueryResponses ==
    {Response(s, b) : s \in Statuses,
                      b \in {EmptyBody, MsgBody, ErrBody, FullBody}}
    \cup {InvalidBody(s) : s \in {200, 404, 500}}
    \cup {TransportError}

-----------------------------------------------------------------------------
(* The client: verbs and cache over time *)

NoOp     == [verb |-> "", url |-> ""]
NoResult == [kind |-> "none", exc |-> "", msg |-> "", value |-> << >>]
NoItem   == [id |-> "", key |-> "", fetched |-> FALSE,
             out |-> [kind |-> "none", exc |-> "", value |-> ""]]

InitRest ==
    /\ res = << >>
    /\ item = NoItem
    /\ fetches = << >>
    /\ chain = << >>
    /\ o = 0
    /\ idx = 0
    /\ pc = "none"
    /\ yielded = << >>

Init ==
    /\ now = 0
    /\ op = NoOp
    /\ cache = << >>
    /\ req = NoCall
    /\ sent = << >>
    /\ result = NoResult
    /\ InitRest

Next ==
    \/ Tick
    \/ \E u \in Urls, f \in FilterSets, rsp \in ClientResponses : Get(u, f, rsp)
    \/ \E u \in Urls, f \in FilterSets, rsp \in MutateResponses : Post(u, f, rsp)
    \/ \E u \in Urls, f \in FilterSets, rsp \in MutateResponses : Put(u, f, rsp)
    \/ \E u \in Urls, f \in FilterSets, rsp \in MutateResponses : Patch(u, f, rsp)
    \/ \E u \in Urls, f \in FilterSets, rsp \in MutateResponses : Delete(u, f, rsp)

Spec == Init /\ [][Next]_vars

-----------------------------------------------------------------------------
(* _query over the range of statuses and bodies, reached through the verbs   *)
(* that do nothing but query                                                 *)

NextQuery ==
    \/ \E rsp \in QueryResponses : Post("/x/1", << >>, rsp)
    \/ \E rsp \in QueryResponses : Put("/x/1", << >>, rsp)
    \/ \E rsp \in QueryResponses : Patch("/x/1", << >>, rsp)
    \/ \E rsp \in QueryResponses : Delete("/x/1", << >>, rsp)

SpecQuery == Init /\ [][NextQuery]_vars

-----------------------------------------------------------------------------
(* Claims about the client *)

\* C4: a GET of a URL cached at time T is answered from the cache, with no
\* transport call, as long as now - T <= TTL, and goes to the transport as
\* soon as now - T > TTL.
C4_CacheServesWithinTTL ==
    [][(now' = now /\ op'.verb = "GET" /\ op'.url \in DOMAIN cache) =>
         LET entry == cache[op'.url]
         IN /\ (now - entry.t <= TTL) =>
                  /\ sent' = << >>
                  /\ req' = NoCall
                  /\ result' = Return(entry.data)
                  /\ cache'[op'.url] = entry
            /\ (now - entry.t > TTL) =>
                  /\ sent' = << <<"GET", op'.url>> >>
                  /\ req' # NoCall]_vars

\* C4 witness: a GET answered from the cache exactly TTL minutes after the
\* insertion of the entry
C4_Witness ==
    /\ op.verb = "GET"
    /\ op.url \in DOMAIN cache
    /\ cache[op.url].t + TTL = now
    /\ sent = << >>
    /\ result = Return(cache[op.url].data)

MutatingVerbs == {"POST", "PUT", "PATCH", "DELETE"}

\* C5: POST, PUT, PATCH and DELETE always make their transport call, also
\* when the URL has a fresh cache entry, and leave the cache as it was.
C5_MutationsBypassCache ==
    [][(now' = now /\ op'.verb \in MutatingVerbs) =>
         /\ sent' = << <<op'.verb, op'.url>> >>
         /\ req' # NoCall
         /\ cache' = cache]_vars

\* C5 witness: a POST sent to a URL whose cache entry is fresh
C5_Witness ==
    /\ op.verb = "POST"
    /\ sent = << <<"POST", op.url>> >>
    /\ op.url \in DOMAIN cache
    /\ now - cache[op.url].t <= TTL
    /\ result.kind = "return"

-----------------------------------------------------------------------------
(* Claims about the status classification *)

ServerErrors == 500..599

ExcOfStatus(s) ==
    CASE s = 400 -> "APIBadRequestError"
      [] s \in {401, 403} -> "APIAuthError"
      [] s = 404 -> "APINotFoundError"
      [] s = 405 -> "APIMethodNotAllowedError"
      [] s \in ServerErrors -> "APIServerError"
      [] OTHER -> "APIError"

\* C6: a query returns the decoded body exactly when the status is 200 or
\* 201, and otherwise raises the one error kind fixed by the status.
C6_StatusFixesOutcome ==
    (sent # << >>) =>
        /\ result.kind = "return" <=>
              (req.kind = "response" /\ req.status \in {200, 201})
        /\ (req.kind = "response" /\ req.status \in {200, 201}) =>
              result.value = req.json
        /\ (req.kind = "response" /\ req.status \notin {200, 201}) =>
              (result.kind = "raise" /\ result.exc = ExcOfStatus(req.status))

\* C6 witness: a 204 answered with the generic error
C6_Witness ==
    /\ sent # << >>
    /\ req.kind = "response"
    /\ req.status = 204
    /\ result.exc = "APIError"

DefaultOfStatus(s) ==
    CASE s = 400 -> "Bad request"
      [] s = 401 -> "Unauthorized"
      [] s = 403 -> "Forbidden"
      [] s = 404 -> "Not found"
      [] s = 405 -> "Method not allowed"
      [] s \in ServerErrors -> "Unknown server error"
      [] OTHER -> "Unknown error " \o ToString(s) \o ": None (None)"

StatusFailure ==
    sent # << >> /\ req.kind = "response" /\ req.status \notin {200, 201}

ClassifiedStatuses == {400, 401, 403, 404, 405} \cup ServerErrors

\* C7 as stated: every error raised for a status carries the body's message
\* field, or the default of its kind when the body has none (the default of
\* the generic kind being its text for a body with no error and no message).
C7_MessageOrDefault ==
    StatusFailure =>
        result.msg = IF "message" \in DOMAIN req.json
                     THEN req.json["message"]
                     ELSE DefaultOfStatus(req.status)

\* C7 amended: that holds of the statuses 400, 401, 403, 404, 405 and 5xx,
\* the default being the one of the status; for every other status the
\* generic error carries "Unknown error <status>: <error> (<message>)", built
\* from the body's error and message fields, None standing for an absent one.
C7_MessageByStatus ==
    StatusFailure =>
        IF req.status \in ClassifiedStatuses
        THEN result.msg = IF "message" \in DOMAIN req.json
                          THEN req.json["message"]
                          ELSE DefaultOfStatus(req.status)
        ELSE \E e \in {"None", "teapot"},
                m \in {"None", "no such thing", "short and stout"} :
                /\ e = (IF "error" \in DOMAIN req.json
                        THEN req.json["error"] ELSE "None")
                /\ m = (IF "message" \in DOMAIN req.json
                        THEN req.json["message"] ELSE "None")
                /\ result.msg = "Unknown error " \o ToString(req.status)
                                \o ": " \o e \o " (" \o m \o ")"

\* C7 witness: a 404 whose body says "no such thing"
C7_Witness ==
    /\ StatusFailure
    /\ req.status = 404
    /\ req.json = MsgBody
    /\ result.exc = "APINotFoundError"
    /\ result.msg = "no such thing"

-----------------------------------------------------------------------------
(* Resource: field access with lazy hydration *)

\* Truth value of a field value: None and the empty string are false
Truthy(v) == v # None /\ v # ""

\* Resource.__getitem__, line 129: the Resource is a stub with an href
Hydratable(fields) ==
    /\ DOMAIN fields \subseteq {"object", "href", "id"}
    /\ Truthy(DictGet(fields, "href", None))

ItemReturn(v) == [kind |-> "return", exc |-> "", value |-> v]
ItemRaise(e)  == [kind |-> "raise", exc |-> e, value |-> ""]

\* A failed fetch that leaves the error body merged
AfterFailedFetchMerged(r, exc) ==
    [res |-> [r EXCEPT !.fields = DictUpdate(@, [message |-> exc])],
     item |-> ItemRaise(exc)]

\* Resource.__getitem__ after a hydration fetch that raised: the exception
\* leaves the method at line 130
AfterFailedFetch(r, exc) ==
    [res |-> r, item |-> ItemRaise(exc)]

\* A merge that forgets to mark the Resource loaded
AfterFetchNotMarked(r, key, data) ==
    LET merged == DictUpdate(r.fields, data)
    IN [res |-> [fields |-> merged, loaded |-> r.loaded],
        item |-> IF key \in DOMAIN merged
                 THEN ItemReturn(merged[key])
                 ELSE ItemRaise("KeyError")]

\* Resource.__getitem__, lines 130-132, after a hydration fetch that
\* returned data: merge, mark loaded, look the key up again
AfterFetch(r, key, data) ==
    LET merged == DictUpdate(r.fields, data)
    IN [res |-> [fields |-> merged, loaded |-> TRUE],
        item |-> IF key \in DOMAIN merged
                 THEN ItemReturn(merged[key])
                 ELSE ItemRaise("KeyError")]

\* Resource.__getitem__, lines 125-132, for a key that is not in the mapping
\* and a Resource that is not fetched: None is what falls off the end of
\* the method
MissingNoFetch(r) ==
    IF r.loaded THEN ItemRaise("KeyError") ELSE ItemReturn(None)

\* Resource.__getitem__ fetches: the key is missing, the Resource is not
\* loaded and is a stub with an href
NeedsFetch(r, key) ==
    /\ key \notin DOMAIN r.fields
    /\ ~r.loaded
    /\ Hydratable(r.fields)

\* self[key] without a fetch: the key is present, or the Resource is loaded
\* or cannot be hydrated
GetItemLocal(id, key) ==
    /\ ~NeedsFetch(res[id], key)
    /\ item' = [id |-> id, key |-> key, fetched |-> FALSE,
                out |-> IF key \in DOMAIN res[id].fields
                        THEN ItemReturn(res[id].fields[key])
                        ELSE MissingNoFetch(res[id])]
    /\ UNCHANGED <<clientVars, res, fetches, listVars>>

\* self[key] with the hydration fetch self.api.get(self['href'])
GetItemFetch(id, key, rsp) ==
    /\ NeedsFetch(res[id], key)
    /\ fetches[id].ok + fetches[id].failed < MaxFetch
    /\ LET url == build_url(res[id].fields["href"], << >>)
           g == ApiGet(cache, now, url, rsp)
           ok == g.result.kind = "return"
           after == IF ok
                    THEN AfterFetch(res[id], key, g.result.value)
                    ELSE AfterFailedFetch(res[id], g.result.exc)
       IN /\ op' = [verb |-> "GET", url |-> url]
          /\ cache' = g.cache
          /\ result' = g.result
          /\ sent' = g.sent
          /\ req' = g.req
          /\ res' = [res EXCEPT ![id] = after.res]
          /\ item' = [id |-> id, key |-> key, fetched |-> TRUE,
                      out |-> after.item]
          /\ fetches' = [fetches EXCEPT ![id] =
                           IF ok THEN [@ EXCEPT !.ok = @ + 1]
                           ELSE [@ EXCEPT !.failed = @ + 1]]
    /\ UNCHANGED <<now, listVars>>

ResIds == {"r1", "r2"}

Keys == {"id", "name", "size"}

\* Bodies a Resource is constructed from
NoHrefBody    == [object |-> "x", id |-> "1"]
EmptyHrefBody == [object |-> "x", href |-> "", id |-> "1"]
HrefOnlyBody  == [href |-> "/x/1"]

ResourceBodies == {StubBody, HrefOnlyBody, OtherBody, NoHrefBody, EmptyHrefBody}

\* The body of the same href under a new id
NewIdBody == [object |-> "x", href |-> "/x/1", id |-> "2"]

HydrateResponses ==
    {Response(200, FullBody), Response(200, NewIdBody), Response(404, MsgBody),
     TransportError}

\* Resource.__init__: the mapping as constructed, not loaded
InitResource ==
    /\ now = 0
    /\ op = NoOp
    /\ cache = << >>
    /\ req = NoCall
    /\ sent = << >>
    /\ result = NoResult
    /\ res \in [ResIds -> {[fields |-> b, loaded |-> FALSE] : b \in ResourceBodies}]
    /\ item = NoItem
    /\ fetches = [id \in ResIds |-> [ok |-> 0, failed |-> 0]]
    /\ chain = << >>
    /\ o = 0
    /\ idx = 0
    /\ pc = "none"
    /\ yielded = << >>

NextResource ==
    \/ Tick
    \/ \E id \in ResIds, key \in Keys : GetItemLocal(id, key)
    \/ \E id \in ResIds, key \in Keys, rsp \in HydrateResponses :
          GetItemFetch(id, key, rsp)

SpecResource == InitResource /\ [][NextResource]_vars

-----------------------------------------------------------------------------
(* Claims about Resource.__getitem__ *)

Fetches(id) == fetches[id].ok + fetches[id].failed

\* A step of SpecResource that is an access: the clock stands still
Access == now' = now

\* C1: the first access to a missing field of a stub issues one API.get of
\* its href; once such a fetch has succeeded, no access to that Resource
\* issues another, whether or not the fetched body holds the field asked for.
C1_HydratesOnce ==
    [][Access =>
         LET id == item'.id
             key == item'.key
         IN /\ (/\ Fetches(id) = 0
                /\ key \notin DOMAIN res[id].fields
                /\ DOMAIN res[id].fields \subseteq {"object", "href", "id"}
                /\ "href" \in DOMAIN res[id].fields
                /\ res[id].fields["href"] # "") =>
                   /\ item'.fetched
                   /\ fetches'[id].ok + fetches'[id].failed = 1
                   /\ op' = [verb |-> "GET",
                             url |-> build_url(res[id].fields["href"], << >>)]
            /\ (fetches[id].ok >= 1) =>
                   /\ ~item'.fetched
                   /\ fetches'[id] = fetches[id]
                   /\ UNCHANGED <<op, cache, req, sent, result>>]_vars

\* C1 witness: a second access to a field that the fetched body did not
\* bring: no fetch, after the one that succeeded
C1_Witness ==
    /\ item.out.kind = "raise"
    /\ item.out.exc = "KeyError"
    /\ ~item.fetched
    /\ fetches[item.id] = [ok |-> 1, failed |-> 0]
    /\ res[item.id].loaded
    /\ item.key \notin DOMAIN res[item.id].fields

\* C2: a hydration fetch that fails marks the Resource loaded all the same:
\* the fetch is not repeated and later accesses to a missing field signal
\* KeyError.
C2_FailedFetchMarksLoaded ==
    \A id \in ResIds :
        fetches[id].failed >= 1 =>
            /\ res[id].loaded
            /\ Fetches(id) = 1

\* C3: an access to an absent key of a Resource that cannot be hydrated
\* raises KeyError and returns no value.
C3_AbsentKeyRaises ==
    (/\ item.out.kind # "none"
     /\ item.key \notin DOMAIN res[item.id].fields
     /\ ~Hydratable(res[item.id].fields)) =>
        (item.out.kind = "raise" /\ item.out.exc = "KeyError")

-----------------------------------------------------------------------------
(* Resource.list_iter *)

\* A list Resource and the pages nested in it under `next`: page k holds
\* its items and the page its `next` field holds (0 for null or absent).
\* The item i of page k is the Resource <<k, i>>.
ListChain(sizes) ==
    [k \in 1..Len(sizes) |->
        [object |-> "list",
         items |-> [i \in 1..sizes[k] |-> <<k, i>>],
         next |-> IF k < Len(sizes) THEN k + 1 ELSE 0]]

ChainSizes == UNION {[1..n -> 0..MaxItems] : n \in 1..MaxPages}

\* The generator's self
Self == 1

\* list_iter, line 139: `o and o['items']`, the key being in the mapping
WhileCond(page) == page # 0 /\ chain[page].items # << >>

\* A step to the next page that starts over from self
NextPageSelf(self, page) == self

\* list_iter, line 143: o = self.get('next')
NextPage(self, page) == chain[self].next

\* line 136 and line 138: the assertion, and o = self
ListIterStart ==
    /\ pc = "start"
    /\ chain[Self].object = "list"
    /\ o' = Self
    /\ pc' = "while"
    /\ UNCHANGED <<clientVars, resVars, chain, idx, yielded>>

\* line 139: the loop test
ListIterWhile ==
    /\ pc = "while"
    /\ IF WhileCond(o)
       THEN pc' = "for" /\ idx' = 1
       ELSE pc' = "done" /\ idx' = 0
    /\ UNCHANGED <<clientVars, resVars, chain, o, yielded>>

\* lines 140-141: yield the next item of the page
ListIterYield ==
    /\ pc = "for"
    /\ Len(yielded) < MaxYield
    /\ yielded' = Append(yielded, chain[o].items[idx])
    /\ IF idx < Len(chain[o].items)
       THEN idx' = idx + 1 /\ pc' = "for"
       ELSE idx' = 0 /\ pc' = "next"
    /\ UNCHANGED <<clientVars, resVars, chain, o>>

\* line 143: the step to the next page
ListIterNext ==
    /\ pc = "next"
    /\ o' = NextPage(Self, o)
    /\ pc' = "while"
    /\ UNCHANGED <<clientVars, resVars, chain, idx, yielded>>

InitList ==
    /\ now = 0
    /\ op = NoOp
    /\ cache = << >>
    /\ req = NoCall
    /\ sent = << >>
    /\ result = NoResult
    /\ res = << >>
    /\ item = NoItem
    /\ fetches = << >>
    /\ chain \in {ListChain(sizes) : sizes \in ChainSizes}
    /\ o = 0
    /\ idx = 0
    /\ pc = "start"
    /\ yielded = << >>

NextList ==
    \/ ListIterStart
    \/ ListIterWhile
    \/ ListIterYield
    \/ ListIterNext

SpecList == InitList /\ [][NextList]_vars

\* The caller keeps drawing from the generator
SpecListFair == SpecList /\ WF_vars(NextList)

-----------------------------------------------------------------------------
(* Claims about list_iter *)

IsPrefix(s, t) == Len(s) <= Len(t) /\ s = SubSeq(t, 1, Len(s))

\* The items of the pages from page k on, up to the first page with no
\* items or no next
RECURSIVE ItemsFrom(_)
ItemsFrom(k) ==
    IF k = 0 \/ chain[k].items = << >> THEN << >>
    ELSE chain[k].items \o ItemsFrom(chain[k].next)

\* C8: the generator yields the items of page 1, then of page 2, and so on
\* along `next`, in order, each item once.
C8_YieldsEveryPageInOrder ==
    /\ IsPrefix(yielded, ItemsFrom(Self))
    /\ pc = "done" => yielded = ItemsFrom(Self)

\* C9: the generator stops at the first page with no items or no next: once
\* the items of the pages up to there are yielded, the loop test fails and
\* no further item is yielded.
C9_StopsAtLastPage ==
    /\ (pc = "while" /\ yielded = ItemsFrom(Self)) => ~WhileCond(o)
    /\ Len(yielded) <= Len(ItemsFrom(Self))

\* C10: on a list of one page the generator yields the items of the page,
\* in order, issues no request, and stops.
C10_SinglePage ==
    /\ [](Len(chain) = 1 =>
            /\ IsPrefix(yielded, chain[Self].items)
            /\ pc = "done" => yielded = chain[Self].items
            /\ ~NeedsFetch([fields |-> chain[Self], loaded |-> FALSE], "items")
            /\ sent = << >> /\ op = NoOp /\ req = NoCall)
    /\ (Len(chain) = 1 => <>(pc = "done"))

\* C10 witness: the generator is done with a page of two items
C10_Witness ==
    /\ Len(chain) = 1
    /\ Len(chain[Self].items) = 2
    /\ pc = "done"
    /\ yielded = << <<1, 1>>, <<1, 2>> >>


-----------------------------------------------------------------------------
(* API.get with filters: the same filter set given in different orders       *)

FilterA == <<"a", Int_(1)>>
FilterB == <<"b", Bool(TRUE)>>
FilterC == <<"c", String("x y")>>

\* get(url, **kwargs) calls: kwargs in the order the caller wrote them
FilterCalls ==
    {[url |-> "/x/1", filters |-> <<FilterA, FilterB>>],
     [url |-> "/x/1", filters |-> <<FilterB, FilterA>>],
     [url |-> "/x/1", filters |-> <<FilterC, FilterA, FilterB>>],
     [url |-> "/x/1", filters |-> <<FilterB, FilterC, FilterA>>],
     [url |-> "/x?z=1", filters |-> <<FilterA, FilterB>>],
     [url |-> "/x?z=1", filters |-> <<FilterB, FilterA>>]}

FilterResponses == {Response(200, FullBody), Response(404, MsgBody)}

NextFilters ==
    \/ Tick
    \/ \E c \in FilterCalls, rsp \in FilterResponses : Get(c.url, c.filters, rsp)

SpecFilters == Init /\ [][NextFilters]_vars

\* The filter mapping of a call: its items without their order
ItemSet(filters) == {filters[i] : i \in 1..Len(filters)}

SameMapping(c, d) == c.url = d.url /\ ItemSet(c.filters) = ItemSet(d.filters)

\* The URLs whose parameters are in the order of their keys
SortedUrls ==
    {"https://core.lambdavpn.net/v1/x/1?a=1&b=1",
     "https://core.lambdavpn.net/v1/x/1?a=1&b=1&c=x%20y",
     "https://core.lambdavpn.net/v1/x?z=1&a=1&b=1"}

\* C11: every URL a GET builds has its filter parameters sorted by key, and
\* when a GET of a call c builds its URL while the URL of a call d with the
\* same mapping in another order has an entry within the TTL, the GET is
\* answered from that entry without a transport call.
C11_FilterOrderSharesEntry ==
    /\ [](op.verb = "GET" => op.url \in SortedUrls)
    /\ [][(now' = now /\ op'.verb = "GET") =>
            \A c \in FilterCalls :
                build_url(c.url, c.filters) = op'.url =>
                \A d \in {e \in FilterCalls : SameMapping(c, e)} :
                    LET shared == build_url(d.url, d.filters)
                    IN (shared \in DOMAIN cache /\ now - cache[shared].t <= TTL)
                       => /\ sent' = << >>
                          /\ result' = Return(cache[shared].data)
                          /\ cache'[op'.url] = cache[shared]]_vars

\* A GET with three filters was answered from the cache some minutes after
\* the entry was stored
C11_Witness ==
    /\ op = [verb |-> "GET",
             url |-> "https://core.lambdavpn.net/v1/x/1?a=1&b=1&c=x%20y"]
    /\ sent = << >>
    /\ result.kind = "return"
    /\ op.url \in DOMAIN cache
    /\ cache[op.url].t < now

-----------------------------------------------------------------------------
(* The verbs over the bodies that do not decode to a JSON object             *)

DecodeResponses ==
    {InvalidBody(st) : st \in {200, 201, 302, 404, 500}}
    \cup {NonObjectBody(200), NonObjectBody(404)}
    \cup {Response(200, FullBody), Response(404, MsgBody),
          Response(503, EmptyBody), TransportError}

NextDecode ==
    \/ Tick
    \/ \E rsp \in DecodeResponses : Get("/x/1", << >>, rsp)
    \/ \E rsp \in DecodeResponses : Post("/x/1", << >>, rsp)
    \/ \E rsp \in DecodeResponses : Put("/x/1", << >>, rsp)
    \/ \E rsp \in DecodeResponses : Patch("/x/1", << >>, rsp)
    \/ \E rsp \in DecodeResponses : Delete("/x/1", << >>, rsp)

SpecDecode == Init /\ [][NextDecode]_vars

\* APIError and its subclasses
Taxonomy ==
    {"APIError", "APIServerError", "APIAuthError", "APINotFoundError",
     "APIMethodNotAllowedError", "APIBadRequestError"}

\* C12: whatever a verb raises is an APIError or one of its subclasses.
C12_RaisesOnlyTaxonomy ==
    result.kind = "raise" => result.exc \in Taxonomy

StartsWith(str, prefix) ==
    Len(str) >= Len(prefix) /\ SubSeq(str, 1, Len(prefix)) = prefix

\* C15: a verb whose transport call was answered with a body that is not JSON
\* raised the APIError "Invalid response content ...", whatever the status of
\* the response, and a GET so answered left no entry for its URL.
C15_InvalidBodyBeforeStatus ==
    req.kind = "invalid" =>
        /\ sent # << >>
        /\ result.kind = "raise"
        /\ result.exc = "APIError"
        /\ StartsWith(result.msg, "Invalid response content")
        /\ op.verb = "GET" => op.url \notin DOMAIN cache

\* A GET answered 404 with a body that is not JSON, and a POST answered 200
\* with one, ended in the decode error
C15_Witness ==
    /\ req.kind = "invalid"
    /\ \/ op.verb = "GET" /\ req.status = 404
       \/ op.verb = "POST" /\ req.status = 200
    /\ result.exc = "APIError"
    /\ StartsWith(result.msg, "Invalid response content")
    /\ op.url \notin DOMAIN cache

-----------------------------------------------------------------------------
(* What the cache holds *)

\* The step is a call of API.get
GetStep == now' = now /\ op'.verb = "GET"

\* The entry of u after the step is not the one before it
EntryWritten(u) ==
    /\ u \in DOMAIN cache'
    /\ u \notin DOMAIN cache \/ cache'[u] # cache[u]

\* C13: an entry is written only by a GET of its URL whose transport call was
\* answered 200 or 201 with a JSON object, and holds that body; a GET that
\* raised leaves no entry for its URL, and the GET of the same URL that comes
\* next makes a transport call.
C13_OnlySuccessfulGetsCached ==
    [][/\ \A u \in DOMAIN cache' :
            EntryWritten(u) =>
                /\ GetStep
                /\ op'.url = u
                /\ sent' = << <<"GET", u>> >>
                /\ req'.kind = "response"
                /\ req'.status \in {200, 201}
                /\ result' = Return(req'.json)
                /\ cache'[u] = [t |-> now, data |-> req'.json]
       /\ (GetStep /\ result'.kind = "raise") => op'.url \notin DOMAIN cache'
       /\ (GetStep /\ op.verb = "GET" /\ result.kind = "raise"
           /\ op'.url = op.url) => sent' # << >>]_vars

\* A GET answered 404 left no entry for its URL beside the entry of another
C13_Witness ==
    /\ op.verb = "GET"
    /\ req.kind = "response" /\ req.status = 404
    /\ result.exc = "APINotFoundError"
    /\ op.url \notin DOMAIN cache
    /\ cache # << >>

\* C14: a GET at time t, whatever its URL and its outcome, leaves no entry
\* stored before t - TTL and keeps every other entry; a step that is not a
\* GET removes no entry.
C14_GetSweepsAllStale ==
    [][/\ GetStep =>
            /\ \A u \in DOMAIN cache' : cache'[u].t >= now - TTL
            /\ \A u \in DOMAIN cache :
                   IF cache[u].t >= now - TTL
                   THEN u \in DOMAIN cache'
                   ELSE u # op'.url => u \notin DOMAIN cache'
       /\ ~GetStep => \A u \in DOMAIN cache :
                          u \in DOMAIN cache' /\ cache'[u] = cache[u]]_vars

\* A failed GET of one URL kept the entry of the other URL, stored exactly
\* TTL before
C14_Witness ==
    /\ op = [verb |-> "GET", url |-> build_url("/x/2", << >>)]
    /\ result.kind = "raise"
    /\ DOMAIN cache = {build_url("/x/1", << >>)}
    /\ cache[build_url("/x/1", << >>)].t = now - TTL

\* C16: when a mutating verb on a URL has succeeded, the GET of that URL that
\* comes next is not answered from the cache (an entry that is in the cache
\* then was stored before the mutation, since the mutating verbs store none).
C16_MutationNotMasked ==
    [][(/\ GetStep
        /\ op.verb \in MutatingVerbs
        /\ result.kind = "return"
        /\ op'.url = op.url) => sent' # << >>]_vars

-----------------------------------------------------------------------------
(* Transport calls per invocation: the verbs and the field access of a stub  *)
(* on one client                                                             *)

InitCalls ==
    /\ now = 0
    /\ op = NoOp
    /\ cache = << >>
    /\ req = NoCall
    /\ sent = << >>
    /\ result = NoResult
    /\ res = [id \in {"r1"} |-> [fields |-> StubBody, loaded |-> FALSE]]
    /\ item = NoItem
    /\ fetches = [id \in {"r1"} |-> [ok |-> 0, failed |-> 0]]
    /\ chain = << >>
    /\ o = 0
    /\ idx = 0
    /\ pc = "none"
    /\ yielded = << >>

NextCalls ==
    \/ \E key \in Keys : GetItemLocal("r1", key)
    \/ \E key \in Keys, rsp \in HydrateResponses : GetItemFetch("r1", key, rsp)
    \/ \E rsp \in MutateResponses : Get("/x/1", << >>, rsp)
    \/ \E rsp \in MutateResponses : Post("/x/1", << >>, rsp)
    \/ \E rsp \in MutateResponses : Put("/x/1", << >>, rsp)
    \/ \E rsp \in MutateResponses : Patch("/x/1", << >>, rsp)
    \/ \E rsp \in MutateResponses : Delete("/x/1", << >>, rsp)

SpecCalls == InitCalls /\ [][NextCalls]_vars

\* C17: sent holds the transport calls of the last verb invocation, nested in
\* a field access or not: there is at most one; a mutating verb made exactly
\* one; an invocation that raised made one call and reports the failure of
\* that call; an invocation without a call is a GET answered from the cache.
C17_NoRetry ==
    /\ Len(sent) <= 1
    /\ op.verb \in MutatingVerbs => sent = << <<op.verb, op.url>> >>
    /\ result.kind = "raise" =>
           /\ sent = << <<op.verb, op.url>> >>
           /\ result = _query(op.url, req)
    /\ (op.verb = "GET" /\ sent = << >>) =>
           /\ req = NoCall
           /\ result.kind = "return"

\* A field access on a stub ended in the error of its one nested call, after
\* an earlier failed access
C17_Witness ==
    /\ item.fetched
    /\ item.out.kind = "raise"
    /\ result.kind = "raise"
    /\ Len(sent) = 1
    /\ fetches["r1"].failed = 2

-----------------------------------------------------------------------------
(* The fields of a Resource over its accesses *)

\* C18: the fields of a Resource change only in an access whose hydration
\* fetch returned a body: the new mapping has the keys of both, with the
\* fetched value for every key of the body and the old value for the others;
\* an access whose fetch failed leaves the fields as they were.
C18_FieldsChangeOnlyByMerge ==
    [][\A id \in ResIds :
          LET old == res[id].fields
              new == res'[id].fields
              body == result'.value
          IN /\ new # old =>
                    /\ Access
                    /\ item'.fetched /\ item'.id = id
                    /\ fetches'[id].ok = fetches[id].ok + 1
                    /\ result'.kind = "return"
                    /\ DOMAIN new = DOMAIN old \cup DOMAIN body
                    /\ \A k \in DOMAIN new :
                           new[k] = IF k \in DOMAIN body THEN body[k] ELSE old[k]
             /\ fetches'[id].failed # fetches[id].failed =>
                    /\ result'.kind = "raise"
                    /\ new = old]_vars

\* A failed fetch on a stub after which the fields are the stub's, and a
\* merge that overwrote the id of the other Resource
C18_Witness ==
    /\ item.fetched /\ item.out.kind = "raise" /\ result.kind = "raise"
    /\ fetches[item.id].failed = 1 /\ fetches[item.id].ok = 0
    /\ res[item.id].fields \in {StubBody, HrefOnlyBody}
    /\ \E id \in ResIds \ {item.id} :
           /\ res[id].loaded
           /\ res[id].fields["id"] = "2"

\* C19: an access that fetches the href of a stub while the cache holds an
\* entry of that href within the TTL makes no transport call and merges the
\* cached body; an access whose fetch made a transport call and returned has
\* left the entry that the other Resource of the same href is served from.
C19_HydrationThroughCache ==
    [][(Access /\ item'.fetched) =>
          LET url == build_url(res[item'.id].fields["href"], << >>)
          IN /\ op' = [verb |-> "GET", url |-> url]
             /\ (url \in DOMAIN cache /\ now - cache[url].t <= TTL) =>
                    /\ sent' = << >>
                    /\ req' = NoCall
                    /\ result' = Return(cache[url].data)
                    /\ fetches'[item'.id].ok = fetches[item'.id].ok + 1
             /\ (sent' # << >> /\ result'.kind = "return") =>
                    cache'[url] = [t |-> now, data |-> result'.value]]_vars

\* Both Resources are hydrated from one href, the second one from the cache
\* some minutes after the first
C19_Witness ==
    /\ item.fetched
    /\ sent = << >>
    /\ \A id \in ResIds : res[id].loaded /\ fetches[id] = [ok |-> 1, failed |-> 0]
    /\ op.url \in DOMAIN cache
    /\ cache[op.url].t < now

-----------------------------------------------------------------------------
(* The insertion time of an entry *)

\* C20: the time of an entry that stays in the cache changes only when a GET
\* of its URL that called the transport stores it anew, the old entry being
\* older than the TTL; a GET answered from the cache leaves its entry as it
\* was; and a GET later than TTL after the time of an entry does not keep it.
C20_NoSlidingExpiration ==
    [][/\ \A u \in DOMAIN cache \cap DOMAIN cache' :
            cache'[u].t # cache[u].t =>
                /\ GetStep
                /\ op'.url = u
                /\ sent' = << <<"GET", u>> >>
                /\ cache[u].t + TTL < now
                /\ cache'[u].t = now
       /\ (GetStep /\ sent' = << >>) =>
              /\ op'.url \in DOMAIN cache
              /\ cache'[op'.url] = cache[op'.url]
       /\ GetStep =>
              \A u \in DOMAIN cache :
                  cache[u].t + TTL < now =>
                      u \notin DOMAIN cache' \/ cache'[u].t = now]_vars

\* A GET of one URL answered from an entry stored some minutes before, still
\* with the time it was stored at, beside a younger entry of the other URL
C20_Witness ==
    /\ op = [verb |-> "GET", url |-> build_url("/x/1", << >>)]
    /\ sent = << >>
    /\ result.kind = "return"
    /\ DOMAIN cache = {build_url("/x/1", << >>), build_url("/x/2", << >>)}
    /\ cache[build_url("/x/1", << >>)].t < cache[build_url("/x/2", << >>)].t
    /\ cache[build_url("/x/2", << >>)].t < now

=============================================================================
